---- MODULE Spec2Model ----
(***************************************************************************)
(* The Minesweeper solver of minesweeper-bot/solver.py (MinesweeperSolver) *)
(* and the board read of its driver (minesweeper-bot/bot.py).              *)
(*                                                                         *)
(* The cell mapping self.cells is a Python dict: it iterates in insertion  *)
(* order and an overwrite keeps the key's position.  It is modelled as a   *)
(* sequence of Cell records with pairwise distinct (row, col).             *)
(* Optional values (Optional[Cell], Optional[SolverMove]) are modelled as  *)
(* sequences of length 0 (None) or 1.                                      *)
(* Risks are exact rationals <<numerator, denominator>>, denominator > 0.  *)
(***************************************************************************)
EXTENDS Integers, Sequences, FiniteSets, TLC

VARIABLES
    rows,         \* self.rows
    cols,         \* self.cols
    mine_count,   \* self.mine_count
    cells,        \* self.cells, in insertion order
    known_mines,  \* self.known_mines
    move,         \* what get_next_move returned, when it produced this
                  \* state (<<>> is None); <<>> after any other operation
    last_op,      \* the operation that produced this state
    steps,        \* observation steps so far (update_cell calls, board reads)
    mines,        \* the true mine layout of the game being played
    revealed,     \* the cells the game has revealed so far
    safe_history, \* the targets of the deduced-safe moves returned so far
    arg,          \* the observation the last update_cell was given, when it
                  \* produced this state; <<>> after any other operation
    move_count,   \* move_count of play
    game_state,   \* what read_game_state last returned to play
    pc,           \* where play stands
    clicks        \* the click_cell calls the loop of play has made

vars == <<rows, cols, mine_count, cells, known_mines, move, last_op, steps,
          mines, revealed, safe_history, arg, move_count, game_state, pc,
          clicks>>

game == <<mines, revealed>>

driver == <<move_count, game_state, pc, clicks>>

solver == <<rows, cols, mine_count, cells, known_mines, move, last_op, arg>>

----------------------------------------------------------------------------
(* Bounds of the model *)

\* update_cell calls in one behaviour of Spec
MaxUpdates == 3
\* largest adjacent_mines value fed by update_cell in Spec and SpecBoard
MaxHint == 2
\* revealed cells in one board read of SpecBoard
MaxRevealed == 2
\* board reads in one behaviour of SpecBoard
MaxReads == 1
\* mines laid on the true board of SpecConsistent
MaxMines == 2

\* cells of the mapping a behaviour of SpecMapping or SpecRow starts from
MaxCells == 4
\* largest adjacent_mines value in a mapping of SpecMapping
MaxDigit == 3
\* coordinates in the known_mines a behaviour of SpecMapping or SpecRow
\* starts from
MaxKnown == 1

\* the board of Spec and SpecMapping
SmallRows == 2
SmallCols == 2
SmallMines == 1
\* the board of SpecRow
RowRows == 1
RowCols == 4
RowMines == 1
\* the board of SpecBoard and SpecConsistent
BoardRows == 3
BoardCols == 3
BoardMines == 1

\* DIFFICULTIES["beginner"]
BeginnerRows == 9
BeginnerCols == 9
BeginnerMines == 10

\* safest = candidates[:5]
TopK == 5

\* max_moves = 500  # Safety limit
max_moves == 500

----------------------------------------------------------------------------
(* Data *)

REVEAL == "reveal"
FLAG == "flag"

Cell(r, c, is_revealed, is_flagged, is_mine, adjacent_mines) ==
    [row |-> r, col |-> c, is_revealed |-> is_revealed,
     is_flagged |-> is_flagged, is_mine |-> is_mine,
     adjacent_mines |-> adjacent_mines]

SolverMove(r, c, action, reason) ==
    [row |-> r, col |-> c, action |-> action, reason |-> reason]

Pos(cell) == <<cell.row, cell.col>>

Keys(cs) == {Pos(cs[i]) : i \in DOMAIN cs}

Board(rs, cl) == (0 .. rs - 1) \X (0 .. cl - 1)

----------------------------------------------------------------------------
(* Board model *)

\* an update that does not let a revealed cell become unrevealed again
update_cell_keep(cs, cell) ==
    IF \E i \in DOMAIN cs : Pos(cs[i]) = Pos(cell)
    THEN [i \in DOMAIN cs |->
             IF Pos(cs[i]) = Pos(cell) /\ ~(cs[i].is_revealed /\ ~cell.is_revealed)
             THEN cell
             ELSE cs[i]]
    ELSE Append(cs, cell)

\* self.cells[(row, col)] = Cell(...): overwrite in place, or insert last
update_cell(cs, cell) ==
    IF \E i \in DOMAIN cs : Pos(cs[i]) = Pos(cell)
    THEN [i \in DOMAIN cs |-> IF Pos(cs[i]) = Pos(cell) THEN cell ELSE cs[i]]
    ELSE Append(cs, cell)

\* self.cells.get((row, col)): <<>> when never observed
get_cell(cs, r, c) ==
    LET Hit(x) == x.row = r /\ x.col = c IN SelectSeq(cs, Hit)

\* for dr in [-1, 0, 1]: for dc in [-1, 0, 1]: skipping (0, 0)
Offsets ==
    << <<-1, -1>>, <<-1, 0>>, <<-1, 1>>,
       <<0, -1>>,             <<0, 1>>,
       <<1, -1>>,  <<1, 0>>,  <<1, 1>> >>

RECURSIVE neighbors_from(_, _, _, _, _, _)
neighbors_from(cs, rs, cl, r, c, k) ==
    IF k > Len(Offsets) THEN <<>>
    ELSE LET nr == r + Offsets[k][1]
             nc == c + Offsets[k][2]
             here == IF 0 <= nr /\ nr < rs /\ 0 <= nc /\ nc < cl
                     THEN get_cell(cs, nr, nc)
                     ELSE <<>>
         IN here \o neighbors_from(cs, rs, cl, r, c, k + 1)

\* a neighbourhood that takes a position never observed for an unrevealed cell
RECURSIVE neighbors_default_from(_, _, _, _, _, _)
neighbors_default_from(cs, rs, cl, r, c, k) ==
    IF k > Len(Offsets) THEN <<>>
    ELSE LET nr == r + Offsets[k][1]
             nc == c + Offsets[k][2]
             here == IF 0 <= nr /\ nr < rs /\ 0 <= nc /\ nc < cl
                     THEN IF get_cell(cs, nr, nc) # <<>>
                          THEN get_cell(cs, nr, nc)
                          ELSE <<Cell(nr, nc, FALSE, FALSE, FALSE, 0)>>
                     ELSE <<>>
         IN here \o neighbors_default_from(cs, rs, cl, r, c, k + 1)

\* a neighbourhood that does not test the position against the board
RECURSIVE neighbors_unbounded_from(_, _, _, _, _, _)
neighbors_unbounded_from(cs, rs, cl, r, c, k) ==
    IF k > Len(Offsets) THEN <<>>
    ELSE LET nr == r + Offsets[k][1]
             nc == c + Offsets[k][2]
         IN get_cell(cs, nr, nc) \o neighbors_unbounded_from(cs, rs, cl, r, c, k + 1)

\* a neighbourhood whose lower bounds are strict: row 0 and column 0 are
\* taken to lie outside the board
RECURSIVE neighbors_strict_from(_, _, _, _, _, _)
neighbors_strict_from(cs, rs, cl, r, c, k) ==
    IF k > Len(Offsets) THEN <<>>
    ELSE LET nr == r + Offsets[k][1]
             nc == c + Offsets[k][2]
             here == IF 0 < nr /\ nr < rs /\ 0 < nc /\ nc < cl
                     THEN get_cell(cs, nr, nc)
                     ELSE <<>>
         IN here \o neighbors_strict_from(cs, rs, cl, r, c, k + 1)

get_neighbors_strict(cs, rs, cl, r, c) == neighbors_strict_from(cs, rs, cl, r, c, 1)

get_neighbors_unbounded(cs, rs, cl, r, c) == neighbors_unbounded_from(cs, rs, cl, r, c, 1)

get_neighbors_default(cs, rs, cl, r, c) == neighbors_default_from(cs, rs, cl, r, c, 1)

get_neighbors(cs, rs, cl, r, c) == neighbors_from(cs, rs, cl, r, c, 1)

SeqToSet(s) == {s[i] : i \in DOMAIN s}

----------------------------------------------------------------------------
(* Deduction engine *)

\* a mine rule that fires when the unrevealed neighbours are at least as
\* many as the mines still missing
identify_step_atleast(cs, rs, cl, km, i) ==
    LET cell == cs[i]
        neighbors == get_neighbors(cs, rs, cl, cell.row, cell.col)
        IsUnrevealed(n) == ~n.is_revealed /\ Pos(n) \notin km
        IsKnown(n) == Pos(n) \in km
        unrevealed == SelectSeq(neighbors, IsUnrevealed)
        known_mine_count == Len(SelectSeq(neighbors, IsKnown))
        remaining_mines == cell.adjacent_mines - known_mine_count
    IN IF ~cell.is_revealed \/ cell.adjacent_mines = 0
       THEN km
       ELSE IF remaining_mines > 0 /\ Len(unrevealed) >= remaining_mines
            THEN km \cup {Pos(unrevealed[j]) : j \in DOMAIN unrevealed}
            ELSE km

\* a mine rule that marks only the first of the unrevealed neighbours
identify_step_first(cs, rs, cl, km, i) ==
    LET cell == cs[i]
        neighbors == get_neighbors(cs, rs, cl, cell.row, cell.col)
        IsUnrevealed(n) == ~n.is_revealed /\ Pos(n) \notin km
        IsKnown(n) == Pos(n) \in km
        unrevealed == SelectSeq(neighbors, IsUnrevealed)
        known_mine_count == Len(SelectSeq(neighbors, IsKnown))
        remaining_mines == cell.adjacent_mines - known_mine_count
    IN IF ~cell.is_revealed \/ cell.adjacent_mines = 0
       THEN km
       ELSE IF remaining_mines > 0 /\ Len(unrevealed) = remaining_mines
            THEN km \cup {Pos(unrevealed[1])}
            ELSE km

\* a mine rule that counts the flagged neighbours as the known mines
identify_step_flagged(cs, rs, cl, km, i) ==
    LET cell == cs[i]
        neighbors == get_neighbors(cs, rs, cl, cell.row, cell.col)
        IsUnrevealed(n) == ~n.is_revealed /\ Pos(n) \notin km
        IsKnown(n) == n.is_flagged
        unrevealed == SelectSeq(neighbors, IsUnrevealed)
        known_mine_count == Len(SelectSeq(neighbors, IsKnown))
        remaining_mines == cell.adjacent_mines - known_mine_count
    IN IF ~cell.is_revealed \/ cell.adjacent_mines = 0
       THEN km
       ELSE IF remaining_mines > 0 /\ Len(unrevealed) = remaining_mines
            THEN km \cup {Pos(unrevealed[j]) : j \in DOMAIN unrevealed}
            ELSE km

\* a mine rule that compares the unrevealed neighbours with the hint itself
identify_step_hint(cs, rs, cl, km, i) ==
    LET cell == cs[i]
        neighbors == get_neighbors(cs, rs, cl, cell.row, cell.col)
        IsUnrevealed(n) == ~n.is_revealed /\ Pos(n) \notin km
        IsKnown(n) == Pos(n) \in km
        unrevealed == SelectSeq(neighbors, IsUnrevealed)
        known_mine_count == Len(SelectSeq(neighbors, IsKnown))
        remaining_mines == cell.adjacent_mines - known_mine_count
    IN IF ~cell.is_revealed \/ cell.adjacent_mines = 0
       THEN km
       ELSE IF remaining_mines > 0 /\ Len(unrevealed) = cell.adjacent_mines
            THEN km \cup {Pos(unrevealed[j]) : j \in DOMAIN unrevealed}
            ELSE km

\* one iteration of the loop of _identify_mines, on cell cs[i]
identify_step(cs, rs, cl, km, i) ==
    LET cell == cs[i]
        neighbors == get_neighbors(cs, rs, cl, cell.row, cell.col)
        IsUnrevealed(n) == ~n.is_revealed /\ Pos(n) \notin km
        IsKnown(n) == Pos(n) \in km
        unrevealed == SelectSeq(neighbors, IsUnrevealed)
        known_mine_count == Len(SelectSeq(neighbors, IsKnown))
        remaining_mines == cell.adjacent_mines - known_mine_count
    IN IF ~cell.is_revealed \/ cell.adjacent_mines = 0
       THEN km
       ELSE IF remaining_mines > 0 /\ Len(unrevealed) = remaining_mines
            THEN km \cup {Pos(unrevealed[j]) : j \in DOMAIN unrevealed}
            ELSE km

\* the loop of _identify_mines over cs[lo], ..., cs[hi], in this order,
\* starting from known_mines km: the first half of the range, then the
\* second half from what the first half left (the loop only adds to
\* known_mines, so the test between the halves is always true: it makes
\* TLC evaluate the first half before it starts the second)
RECURSIVE identify_range(_, _, _, _, _, _)
identify_range(cs, rs, cl, km, lo, hi) ==
    IF lo > hi THEN km
    ELSE IF lo = hi THEN identify_step(cs, rs, cl, km, lo)
         ELSE LET mid == (lo + hi) \div 2
                  first == identify_range(cs, rs, cl, km, lo, mid)
              IN IF km \subseteq first
                 THEN identify_range(cs, rs, cl, first, mid + 1, hi)
                 ELSE first

\* a pass that forgets what earlier passes deduced
identify_mines_fresh(cs, rs, cl, km) == identify_range(cs, rs, cl, {}, 1, Len(cs))

\* self._identify_mines(): the known_mines after one pass over self.cells
identify_mines(cs, rs, cl, km) == identify_range(cs, rs, cl, km, 1, Len(cs))

\* a safe-cell rule that passes over the neighbours reported as flagged
safe_at_unflagged(cs, rs, cl, km, i) ==
    LET cell == cs[i]
        neighbors == get_neighbors(cs, rs, cl, cell.row, cell.col)
        IsKnown(n) == Pos(n) \in km
        IsSafe(n) == ~n.is_revealed /\ ~n.is_flagged /\ Pos(n) \notin km
        known_mine_count == Len(SelectSeq(neighbors, IsKnown))
        safe == SelectSeq(neighbors, IsSafe)
    IN IF cell.is_revealed /\ known_mine_count = cell.adjacent_mines
          /\ safe # <<>>
       THEN <<SolverMove(safe[1].row, safe[1].col, REVEAL,
                         <<"Safe", cell.row, cell.col>>)>>
       ELSE <<>>

\* a safe-cell rule that does not ask whether the neighbour is unrevealed
safe_at_any(cs, rs, cl, km, i) ==
    LET cell == cs[i]
        neighbors == get_neighbors(cs, rs, cl, cell.row, cell.col)
        IsKnown(n) == Pos(n) \in km
        IsSafe(n) == Pos(n) \notin km
        known_mine_count == Len(SelectSeq(neighbors, IsKnown))
        safe == SelectSeq(neighbors, IsSafe)
    IN IF cell.is_revealed /\ known_mine_count = cell.adjacent_mines
          /\ safe # <<>>
       THEN <<SolverMove(safe[1].row, safe[1].col, REVEAL,
                         <<"Safe", cell.row, cell.col>>)>>
       ELSE <<>>

\* a safe-cell rule that fires when the known mines do not exceed the hint
safe_at_atmost(cs, rs, cl, km, i) ==
    LET cell == cs[i]
        neighbors == get_neighbors(cs, rs, cl, cell.row, cell.col)
        IsKnown(n) == Pos(n) \in km
        IsSafe(n) == ~n.is_revealed /\ Pos(n) \notin km
        known_mine_count == Len(SelectSeq(neighbors, IsKnown))
        safe == SelectSeq(neighbors, IsSafe)
    IN IF cell.is_revealed /\ known_mine_count <= cell.adjacent_mines
          /\ safe # <<>>
       THEN <<SolverMove(safe[1].row, safe[1].col, REVEAL,
                         <<"Safe", cell.row, cell.col>>)>>
       ELSE <<>>

\* a safe-cell rule that skips the cells whose hint is 0, as the mine rule does
safe_at_nonzero(cs, rs, cl, km, i) ==
    LET cell == cs[i]
        neighbors == get_neighbors(cs, rs, cl, cell.row, cell.col)
        IsKnown(n) == Pos(n) \in km
        IsSafe(n) == ~n.is_revealed /\ Pos(n) \notin km
        known_mine_count == Len(SelectSeq(neighbors, IsKnown))
        safe == SelectSeq(neighbors, IsSafe)
    IN IF cell.is_revealed /\ cell.adjacent_mines # 0
          /\ known_mine_count = cell.adjacent_mines /\ safe # <<>>
       THEN <<SolverMove(safe[1].row, safe[1].col, REVEAL,
                         <<"Safe", cell.row, cell.col>>)>>
       ELSE <<>>

\* the move _find_safe_cell returns at cell cs[i], <<>> when it moves on
safe_at(cs, rs, cl, km, i) ==
    LET cell == cs[i]
        neighbors == get_neighbors(cs, rs, cl, cell.row, cell.col)
        IsKnown(n) == Pos(n) \in km
        IsSafe(n) == ~n.is_revealed /\ Pos(n) \notin km
        known_mine_count == Len(SelectSeq(neighbors, IsKnown))
        safe == SelectSeq(neighbors, IsSafe)
    IN IF cell.is_revealed /\ known_mine_count = cell.adjacent_mines
          /\ safe # <<>>
       THEN <<SolverMove(safe[1].row, safe[1].col, REVEAL,
                         <<"Safe", cell.row, cell.col>>)>>
       ELSE <<>>

\* self._find_safe_cell(): <<move>> or <<>> (None); the loop returns at
\* the first cell of self.cells where it finds a move
find_safe_cell(cs, rs, cl, km) ==
    LET hits == {i \in DOMAIN cs : safe_at(cs, rs, cl, km, i) # <<>>}
        first == CHOOSE i \in hits : \A j \in hits : i <= j
    IN IF hits = {} THEN <<>> ELSE safe_at(cs, rs, cl, km, first)

----------------------------------------------------------------------------
(* Guess engine *)

RECURSIVE Gcd(_, _)
Gcd(a, b) == IF b = 0 THEN a ELSE Gcd(b, a % b)

RECURSIVE LcmUpTo(_)
LcmUpTo(n) ==
    IF n <= 1 THEN 1
    ELSE LET l == LcmUpTo(n - 1) IN (l * n) \div Gcd(l, n)

\* a common denominator of every m / u with 1 <= u <= 8 neighbours
DensityDen == LcmUpTo(Len(Offsets))

\* rationals a = <<num, den>> with den > 0
RatLess(a, b) == a[1] * b[2] < b[1] * a[2]

\* the contributions mines_needed / unrevealed of the revealed neighbours
\* ns[k..], as numerators over DensityDen; a neighbour whose unrevealed
\* count is 0 contributes nothing
RECURSIVE densities_from(_, _, _, _, _, _)
densities_from(cs, rs, cl, km, ns, k) ==
    IF k > Len(ns) THEN <<>>
    ELSE LET neighbor == ns[k]
             n_neighbors == get_neighbors(cs, rs, cl, neighbor.row, neighbor.col)
             IsKnown(n) == Pos(n) \in km
             IsOpen(n) == ~n.is_revealed /\ Pos(n) \notin km
             known == Len(SelectSeq(n_neighbors, IsKnown))
             unrevealed == Len(SelectSeq(n_neighbors, IsOpen))
             mines_needed == neighbor.adjacent_mines - known
             here == IF unrevealed > 0
                     THEN <<(mines_needed * DensityDen) \div unrevealed>>
                     ELSE <<>>
         IN here \o densities_from(cs, rs, cl, km, ns, k + 1)

RECURSIVE SumSeq(_)
SumSeq(s) == IF s = <<>> THEN 0 ELSE Head(s) + SumSeq(Tail(s))

\* a prior that leaves the known mines out of the mine count
calculate_risk_unknown(cs, rs, cl, mc, km, r, c) ==
    LET IsRevealed(n) == n.is_revealed
        neighbors == SelectSeq(get_neighbors(cs, rs, cl, r, c), IsRevealed)
        ds == densities_from(cs, rs, cl, km, neighbors, 1)
        count == Len(ds)
    IN IF neighbors = <<>> THEN <<mc - Cardinality(km), rs * cl>>
       ELSE IF count > 0 THEN <<SumSeq(ds), DensityDen * count>>
            ELSE <<1, 2>>

\* self._calculate_risk(row, col)
calculate_risk(cs, rs, cl, mc, km, r, c) ==
    LET IsRevealed(n) == n.is_revealed
        neighbors == SelectSeq(get_neighbors(cs, rs, cl, r, c), IsRevealed)
        ds == densities_from(cs, rs, cl, km, neighbors, 1)
        count == Len(ds)
    IN IF neighbors = <<>> THEN <<mc, rs * cl>>
       ELSE IF count > 0 THEN <<SumSeq(ds), DensityDen * count>>
            ELSE <<1, 2>>

\* the divisors of mines_needed / unrevealed for the revealed neighbours
\* ns[k..], in the order the loop of _calculate_risk divides
RECURSIVE divisors_from(_, _, _, _, _, _)
divisors_from(cs, rs, cl, km, ns, k) ==
    IF k > Len(ns) THEN <<>>
    ELSE LET neighbor == ns[k]
             n_neighbors == get_neighbors(cs, rs, cl, neighbor.row, neighbor.col)
             IsOpen(n) == ~n.is_revealed /\ Pos(n) \notin km
             unrevealed == Len(SelectSeq(n_neighbors, IsOpen))
             here == IF unrevealed > 0 THEN <<unrevealed>> ELSE <<>>
         IN here \o divisors_from(cs, rs, cl, km, ns, k + 1)

\* the loop dividing for every revealed neighbour, without the test
\* unrevealed > 0
RECURSIVE divisors_unguarded_from(_, _, _, _, _, _)
divisors_unguarded_from(cs, rs, cl, km, ns, k) ==
    IF k > Len(ns) THEN <<>>
    ELSE LET neighbor == ns[k]
             n_neighbors == get_neighbors(cs, rs, cl, neighbor.row, neighbor.col)
             IsOpen(n) == ~n.is_revealed /\ Pos(n) \notin km
             unrevealed == Len(SelectSeq(n_neighbors, IsOpen))
         IN <<unrevealed>> \o divisors_unguarded_from(cs, rs, cl, km, ns, k + 1)

\* a risk computation that divides by the unrevealed count of every
\* revealed neighbour
risk_divisors_unguarded(cs, rs, cl, km, r, c) ==
    LET IsRevealed(n) == n.is_revealed
        neighbors == SelectSeq(get_neighbors(cs, rs, cl, r, c), IsRevealed)
        ds == divisors_unguarded_from(cs, rs, cl, km, neighbors, 1)
        count == Len(ds)
    IN IF neighbors = <<>> THEN <<rs * cl>>
       ELSE ds \o (IF count > 0 THEN <<count>> ELSE <<>>)

\* the divisors of the divisions self._calculate_risk(row, col) carries
\* out, in order: rows * cols, or each unrevealed and then count
risk_divisors(cs, rs, cl, km, r, c) ==
    LET IsRevealed(n) == n.is_revealed
        neighbors == SelectSeq(get_neighbors(cs, rs, cl, r, c), IsRevealed)
        ds == divisors_from(cs, rs, cl, km, neighbors, 1)
        count == Len(ds)
    IN IF neighbors = <<>> THEN <<rs * cl>>
       ELSE ds \o (IF count > 0 THEN <<count>> ELSE <<>>)

\* candidates: (r, c, risk) of the unrevealed cells not in known_mines,
\* in the order of self.cells
candidates_of(cs, rs, cl, mc, km) ==
    LET IsCandidate(cell) == ~cell.is_revealed /\ Pos(cell) \notin km
        open == SelectSeq(cs, IsCandidate)
    IN [k \in DOMAIN open |->
           <<open[k].row, open[k].col,
             calculate_risk(cs, rs, cl, mc, km, open[k].row, open[k].col)>>]

\* a sort that leaves the candidates in the order of self.cells
sort_by_risk_none(s) == s

\* candidates.sort(key=lambda x: x[2]): ascending by risk and stable, so
\* s[i] lands after the entries of lower risk and the earlier entries of
\* the same risk.  (The code sorts floats; rounding can only reorder
\* entries whose exact risks are equal.)
sort_by_risk(s) ==
    LET Before(j, i) == RatLess(s[j][3], s[i][3])
                        \/ (~RatLess(s[i][3], s[j][3]) /\ j < i)
        rank == [i \in DOMAIN s |-> Cardinality({j \in DOMAIN s : Before(j, i)}) + 1]
    IN [k \in DOMAIN s |-> s[CHOOSE i \in DOMAIN s : rank[i] = k]]

\* candidates[:5]
safest_of(sorted) == SubSeq(sorted, 1, IF Len(sorted) < TopK THEN Len(sorted) ELSE TopK)

\* the lists _make_guess hands to random.choice: none when it has
\* returned None before
choice_calls(cs, rs, cl, mc, km) ==
    LET candidates == candidates_of(cs, rs, cl, mc, km)
        safest == safest_of(sort_by_risk(candidates))
    IN IF candidates = <<>> THEN <<>> ELSE <<safest>>

\* a guess that gives up unless it has more than one candidate
make_guess_plural(cs, rs, cl, mc, km) ==
    LET candidates == candidates_of(cs, rs, cl, mc, km)
        safest == safest_of(sort_by_risk(candidates))
    IN IF Len(candidates) < 2 THEN {}
       ELSE {SolverMove(safest[k][1], safest[k][2], REVEAL, <<"Guess", safest[k][3]>>) :
                k \in DOMAIN safest}

\* self._make_guess(): the moves random.choice can produce; {} when it
\* returns None
make_guess(cs, rs, cl, mc, km) ==
    LET candidates == candidates_of(cs, rs, cl, mc, km)
        safest == safest_of(sort_by_risk(candidates))
    IN {SolverMove(safest[k][1], safest[k][2], REVEAL, <<"Guess", safest[k][3]>>) :
            k \in DOMAIN safest}

----------------------------------------------------------------------------
(* Move selector *)

\* a selector that tries the guess before the safe-cell inference
get_next_move_guess_first(cs, rs, cl, mc, km) ==
    LET km1 == identify_mines(cs, rs, cl, km)
        safe_move == find_safe_cell(cs, rs, cl, km1)
        guesses == make_guess(cs, rs, cl, mc, km1)
    IN [known_mines |-> km1,
        returns |-> IF guesses # {} THEN {<<g>> : g \in guesses}
                    ELSE IF safe_move # <<>> THEN {safe_move}
                         ELSE {<<>>}]

\* self.get_next_move(): the known_mines it leaves and the values it can
\* return (each <<move>>, or <<>> for None)
get_next_move(cs, rs, cl, mc, km) ==
    LET km1 == identify_mines(cs, rs, cl, km)
        safe_move == find_safe_cell(cs, rs, cl, km1)
        guesses == make_guess(cs, rs, cl, mc, km1)
    IN [known_mines |-> km1,
        returns |-> IF safe_move # <<>> THEN {safe_move}
                    ELSE IF guesses = {} THEN {<<>>}
                         ELSE {<<g>> : g \in guesses}]

----------------------------------------------------------------------------
(* Driver: MinesweeperBot.read_board *)

\* A cell of the page: its CSS classes and the digit found in them or in
\* its text (<<>> when there is none)
DomCell(classes, digit) == [classes |-> classes, digit |-> digit]

\* the observation read_board derives from page cell number i
parse_cell(d, i, cl) ==
    LET row == i \div cl
        col == i % cl
        is_unrevealed == "unrevealed" \in d.classes
        is_revealed == ~is_unrevealed
                       /\ ("revealed" \in d.classes \/ "mine" \in d.classes)
        is_flagged == "flagged" \in d.classes
        is_mine == "mine" \in d.classes
        adjacent_mines == IF is_revealed /\ ~is_mine /\ d.digit # <<>>
                          THEN d.digit[1]
                          ELSE 0
    IN Cell(row, col, ~is_unrevealed, is_flagged, is_mine, adjacent_mines)

\* for i in range(count): self.solver.update_cell(...); dom[i + 1] is
\* page cell i
\* for i in range(lo, hi + 1): self.solver.update_cell(...); dom[i + 1]
\* is page cell i.  The first half of the range, then the second half
\* (update_cell never shortens the mapping, so the test between the halves
\* is always true: it makes TLC evaluate the first half before it starts
\* the second).
RECURSIVE read_range(_, _, _, _, _)
read_range(cs, cl, dom, lo, hi) ==
    IF lo > hi THEN cs
    ELSE IF lo = hi THEN update_cell(cs, parse_cell(dom[lo + 1], lo, cl))
         ELSE LET mid == (lo + hi) \div 2
                  first == read_range(cs, cl, dom, lo, mid)
              IN IF Len(first) >= Len(cs)
                 THEN read_range(first, cl, dom, mid + 1, hi)
                 ELSE first

\* read_board: count = cells.count() page cells, numbered from 0
read_board(cs, cl, dom) == read_range(cs, cl, dom, 0, Len(dom) - 1)

----------------------------------------------------------------------------
(* Actions *)

NoMove == <<>>

\* MinesweeperSolver(rows, cols, mine_count)
Construct(rs, cl, mc) ==
    /\ rows = rs
    /\ cols = cl
    /\ mine_count = mc
    /\ cells = <<>>
    /\ known_mines = {}
    /\ move = NoMove
    /\ last_op = "init"
    /\ steps = 0
    /\ arg = <<>>

UpdateCell(r, c, is_revealed, is_flagged, is_mine, adjacent_mines) ==
    /\ cells' = update_cell(cells, Cell(r, c, is_revealed, is_flagged,
                                        is_mine, adjacent_mines))
    /\ last_op' = "update_cell"
    /\ move' = NoMove
    /\ arg' = <<Cell(r, c, is_revealed, is_flagged, is_mine, adjacent_mines)>>
    /\ UNCHANGED <<rows, cols, mine_count, known_mines>>

\* a selector that also marks the mines it knows as flagged in its mapping
GetNextMove_flagging ==
    LET res == get_next_move(cells, rows, cols, mine_count, known_mines)
    IN /\ known_mines' = res.known_mines
       /\ move' \in res.returns
       /\ last_op' = "get_next_move"
       /\ arg' = <<>>
       /\ cells' = [i \in DOMAIN cells |->
                       IF Pos(cells[i]) \in res.known_mines
                       THEN [cells[i] EXCEPT !.is_flagged = TRUE]
                       ELSE cells[i]]
       /\ UNCHANGED <<rows, cols, mine_count>>

GetNextMove ==
    LET res == get_next_move(cells, rows, cols, mine_count, known_mines)
    IN /\ known_mines' = res.known_mines
       /\ move' \in res.returns
       /\ last_op' = "get_next_move"
       /\ arg' = <<>>
       /\ UNCHANGED <<rows, cols, mine_count, cells>>

\* self._identify_mines(), called on its own
IdentifyMines ==
    /\ known_mines' = identify_mines(cells, rows, cols, known_mines)
    /\ last_op' = "identify_mines"
    /\ move' = NoMove
    /\ arg' = <<>>
    /\ UNCHANGED <<rows, cols, mine_count, cells>>

ReadBoard(dom) ==
    /\ cells' = read_board(cells, cols, dom)
    /\ last_op' = "read_board"
    /\ move' = NoMove
    /\ arg' = <<>>
    /\ UNCHANGED <<rows, cols, mine_count, known_mines>>

\* play has not been started
DriverIdle ==
    /\ move_count = 0
    /\ game_state = "playing"
    /\ pc = "idle"
    /\ clicks = 0

----------------------------------------------------------------------------
(* Spec: any sequence of update_cell and get_next_move calls on one solver *)

\* a position outside the board next to its first row
OutCoords == {<<-1, 0>>}

Coords == Board(SmallRows, SmallCols) \cup OutCoords

Init ==
    /\ Construct(SmallRows, SmallCols, SmallMines)
    /\ mines = {}
    /\ revealed = {}
    /\ safe_history = {}
    /\ DriverIdle

Next ==
    \/ /\ steps < MaxUpdates
       /\ \E p \in Coords :
            \/ \E f \in BOOLEAN : UpdateCell(p[1], p[2], FALSE, f, FALSE, 0)
            \/ \E m \in BOOLEAN, h \in 0 .. MaxHint :
                   UpdateCell(p[1], p[2], TRUE, FALSE, m, h)
       /\ steps' = steps + 1
       /\ UNCHANGED <<game, safe_history, driver>>
    \/ /\ GetNextMove
       /\ UNCHANGED <<steps, game, safe_history, driver>>

Spec == Init /\ [][Next]_vars

----------------------------------------------------------------------------
(* SpecBoard: the driver reads a page of any content, then asks for moves *)

Unrevealed == DomCell({"cell", "unrevealed"}, <<>>)

Revealed(h) == DomCell({"cell", "revealed"}, <<h>>)

\* the pages of n cells with at most MaxRevealed revealed cells, each with
\* a digit up to MaxHint
Pages(n) ==
    UNION {
        UNION {
            {[i \in 1 .. n |-> IF i \in R THEN Revealed(h[i]) ELSE Unrevealed]} :
                h \in [R -> 0 .. MaxHint]} :
            R \in {X \in SUBSET (1 .. n) : Cardinality(X) <= MaxRevealed}}

InitBoard ==
    /\ Construct(BoardRows, BoardCols, BoardMines)
    /\ mines = {}
    /\ revealed = {}
    /\ safe_history = {}
    /\ DriverIdle

NextBoard ==
    \/ /\ steps < MaxReads
       /\ \E dom \in Pages(rows * cols) : ReadBoard(dom)
       /\ steps' = steps + 1
       /\ UNCHANGED <<game, safe_history, driver>>
    \/ /\ GetNextMove
       /\ UNCHANGED <<steps, game, safe_history, driver>>

SpecBoard == InitBoard /\ [][NextBoard]_vars

----------------------------------------------------------------------------
(* SpecConsistent: a game on a true board.  The game only ever reveals    *)
(* cells that are not mines, every page shows each revealed cell with the  *)
(* true number of mines around it, and the driver reads the whole page     *)
(* before each decision.                                                   *)

Adjacent(p, q) ==
    /\ p # q
    /\ p[1] - q[1] \in {-1, 0, 1}
    /\ p[2] - q[2] \in {-1, 0, 1}

TrueHint(ms, p) == Cardinality({q \in ms : Adjacent(p, q)})

\* the page of the game: cell i is position (i div cols, i mod cols)
Render(ms, rev, rs, cl) ==
    [i \in 1 .. rs * cl |->
        LET p == <<(i - 1) \div cl, (i - 1) % cl>>
        IN IF p \in rev THEN Revealed(TrueHint(ms, p)) ELSE Unrevealed]

InitConsistent ==
    \E ms \in SUBSET Board(BoardRows, BoardCols) :
        /\ 1 <= Cardinality(ms)
        /\ Cardinality(ms) <= MaxMines
        /\ Construct(BoardRows, BoardCols, Cardinality(ms))
        /\ mines = ms
        /\ revealed = {}
        /\ safe_history = {}
        /\ DriverIdle

\* the game reveals the cells S and the driver reads the page
PlayAndRead(S) ==
    /\ S # {}
    /\ revealed' = revealed \cup S
    /\ ReadBoard(Render(mines, revealed', rows, cols))
    /\ UNCHANGED <<steps, mines, safe_history, driver>>

Decide ==
    /\ Board(rows, cols) \subseteq Keys(cells)
    /\ GetNextMove
    /\ safe_history' = IF move' # NoMove /\ move'[1].reason[1] = "Safe"
                       THEN safe_history \cup {<<move'[1].row, move'[1].col>>}
                       ELSE safe_history
    /\ UNCHANGED <<steps, game, driver>>

NextConsistent ==
    \/ \E q \in (Board(rows, cols) \ mines) \ revealed : PlayAndRead({q})
    \/ Decide

SpecConsistent == InitConsistent /\ [][NextConsistent]_vars

----------------------------------------------------------------------------
(* SpecPartial: a true board of which the solver is fed one cell at a     *)
(* time, in any order, each as the game shows it; get_next_move can be     *)
(* called before every cell of the board has been observed.                *)

InitPartial ==
    \E ms \in SUBSET Board(SmallRows, SmallCols) :
        /\ 1 <= Cardinality(ms)
        /\ Cardinality(ms) <= MaxMines
        /\ Construct(SmallRows, SmallCols, Cardinality(ms))
        /\ mines = ms
        /\ revealed \in SUBSET (Board(SmallRows, SmallCols) \ ms)
        /\ revealed # {}
        /\ safe_history = {}
        /\ DriverIdle

\* the solver is fed position p as the game shows it
Observe(p) ==
    UpdateCell(p[1], p[2], p \in revealed, FALSE, FALSE,
               IF p \in revealed THEN TrueHint(mines, p) ELSE 0)

NextPartial ==
    \/ /\ \E p \in Board(rows, cols) : Observe(p)
       /\ UNCHANGED <<steps, game, safe_history, driver>>
    \/ /\ GetNextMove
       /\ UNCHANGED <<steps, game, safe_history, driver>>

SpecPartial == InitPartial /\ [][NextPartial]_vars

----------------------------------------------------------------------------
(* SpecPlay: play() of the driver on a game of the small board.  The game  *)
(* answers a click by revealing the cell (a mine ends it) or not at all    *)
(* (a page that does not react), so that play can also run into its move   *)
(* limit.  pc is the place play has reached: "idle" before it is called,   *)
(* "test" at the while condition, "read", "decide" and "click" inside the  *)
(* loop body, "done" once it has returned.                                 *)

\* a mine the game shows after it was clicked
Exploded == DomCell({"cell", "revealed", "mine"}, <<>>)

\* the page of the game in play
PlayPage ==
    [i \in 1 .. rows * cols |->
        LET p == <<(i - 1) \div cols, (i - 1) % cols>>
        IN IF p \in revealed \cap mines THEN Exploded
           ELSE IF p \in revealed THEN Revealed(TrueHint(mines, p))
                ELSE Unrevealed]

\* what the smiley of the page shows
Smiley ==
    IF revealed \cap mines # {} THEN "lost"
    ELSE IF revealed = Board(rows, cols) \ mines THEN "won"
         ELSE "playing"

\* the game after a click on position q
GameClick(q) ==
    /\ revealed' \in {revealed, revealed \cup {q}}
    /\ mines' = mines

InitPlay ==
    \E ms \in SUBSET Board(SmallRows, SmallCols) :
        /\ Cardinality(ms) = SmallMines
        /\ Construct(SmallRows, SmallCols, SmallMines)
        /\ mines = ms
        /\ revealed = {}
        /\ safe_history = {}
        /\ DriverIdle

\* play() up to its loop: select_difficulty, make_first_move
MakeFirstMove ==
    /\ pc = "idle"
    /\ GameClick(<<rows \div 2, cols \div 2>>)
    /\ pc' = "test"
    /\ UNCHANGED <<solver, steps, safe_history, move_count, game_state, clicks>>

\* a loop whose condition does not look at the moves made
loop_unbounded(mc) == TRUE

\* the condition of the while loop of play
loop_continues(mc) == mc < max_moves

\* while move_count < max_moves:
LoopTest ==
    /\ pc = "test"
    /\ pc' = IF loop_continues(move_count) THEN "read" ELSE "done"
    /\ UNCHANGED <<solver, steps, game, safe_history, move_count, game_state, clicks>>

\* self.read_board(); game_state = self.read_game_state(); return on
\* "won" and on "lost"
ReadState ==
    /\ pc = "read"
    /\ ReadBoard(PlayPage)
    /\ steps' = steps + 1
    /\ game_state' = Smiley
    /\ pc' = IF game_state' \in {"won", "lost"} THEN "done" ELSE "decide"
    /\ UNCHANGED <<game, safe_history, move_count, clicks>>

\* move = self.solver.get_next_move(); return if move is None
AskMove ==
    /\ pc = "decide"
    /\ GetNextMove
    /\ pc' = IF move' = NoMove THEN "done" ELSE "click"
    /\ UNCHANGED <<steps, game, safe_history, move_count, game_state, clicks>>

\* move_count += 1; self.click_cell(move.row, move.col, ...)
ClickMove ==
    /\ pc = "click"
    /\ move_count' = move_count + 1
    /\ clicks' = clicks + 1
    /\ GameClick(<<move[1].row, move[1].col>>)
    /\ pc' = "test"
    /\ UNCHANGED <<solver, steps, safe_history, game_state>>

NextPlay ==
    \/ MakeFirstMove
    \/ LoopTest
    \/ ReadState
    \/ AskMove
    \/ ClickMove

\* control moving on from a place of play other than its return.  Every
\* step of NextPlay is such a move and one is possible wherever play has
\* not returned.
Advance ==
    /\ pc # "done"
    /\ pc' \in {"test", "read", "decide", "click", "done"}

\* play is a sequential program: it takes its next step as long as it has
\* not returned
SpecPlay == InitPlay /\ [][NextPlay]_vars /\ WF_pc(Advance)

----------------------------------------------------------------------------
(* SpecBeginner: the beginner board after the first click on its centre,    *)
(* which the page shows revealed with no digit.  The solver is fed the     *)
(* centre, single unrevealed cells around it or in a corner, or the whole  *)
(* page as the driver reads it.                                            *)

\* center_row, center_col of make_first_move
Centre == <<BeginnerRows \div 2, BeginnerCols \div 2>>

Ring == {q \in Board(BeginnerRows, BeginnerCols) : Adjacent(Centre, q)}

Corner == <<0, 0>>

FirstPage == Render({}, {Centre}, BeginnerRows, BeginnerCols)

InitBeginner ==
    /\ Construct(BeginnerRows, BeginnerCols, BeginnerMines)
    /\ mines = {}
    /\ revealed = {Centre}
    /\ safe_history = {}
    /\ DriverIdle

NextBeginner ==
    \/ /\ steps < MaxUpdates
       /\ \/ UpdateCell(Centre[1], Centre[2], TRUE, FALSE, FALSE, 0)
          \/ \E q \in Ring \cup {Corner} :
                UpdateCell(q[1], q[2], FALSE, FALSE, FALSE, 0)
       /\ steps' = steps + 1
       /\ UNCHANGED <<game, safe_history, driver>>
    \/ /\ ReadBoard(FirstPage)
       /\ UNCHANGED <<steps, game, safe_history, driver>>
    \/ /\ GetNextMove
       /\ UNCHANGED <<steps, game, safe_history, driver>>

SpecBeginner == InitBeginner /\ [][NextBeginner]_vars

----------------------------------------------------------------------------
(* SpecMapping, SpecRow: mine-inference passes and move requests on a      *)
(* solver that earlier update_cell and get_next_move calls have left with  *)
(* any mapping of a small board, in any insertion order, and with known    *)
(* mines among its keys.  (A coordinate enters known_mines only as the     *)
(* neighbour of another observed cell, so a solver with known mines has at *)
(* least two cells; any later update_cell can overwrite what was observed  *)
(* then.)  SpecMapping has the square board, where every cell neighbours   *)
(* every other; SpecRow has a single row, where neighbourhoods differ, and *)
(* runs the passes alone.                                                  *)

\* the orders in which up to MaxCells positions of the board were inserted
PosSeqs(rs, cl) ==
    {ps \in UNION {[1 .. k -> Board(rs, cl)] : k \in 0 .. MaxCells} :
        \A i, j \in DOMAIN ps : i # j => ps[i] # ps[j]}

\* <<is_revealed, adjacent_mines>> of an observation, hints up to d
ObsValues(d) == {<<FALSE, 0>>} \cup {<<TRUE, h>> : h \in 0 .. d}

Mappings(rs, cl, d) ==
    UNION {
        {[i \in DOMAIN ps |->
             Cell(ps[i][1], ps[i][2], vs[i][1], FALSE, FALSE, vs[i][2])] :
            vs \in [DOMAIN ps -> ObsValues(d)]} :
        ps \in PosSeqs(rs, cl)}

StartSets(cs, rs, cl) ==
    {km \in SUBSET (Keys(cs) \cap Board(rs, cl)) :
        /\ Cardinality(km) <= MaxKnown
        /\ km # {} => Len(cs) >= 2}

\* the solver of an rs x cl board with mc mines, left with a mapping of
\* hints up to d
Left(rs, cl, mc, d) ==
    /\ rows = rs
    /\ cols = cl
    /\ mine_count = mc
    /\ cells \in Mappings(rs, cl, d)
    /\ known_mines \in StartSets(cells, rs, cl)
    /\ move = NoMove
    /\ last_op = "init"
    /\ steps = 0
    /\ arg = <<>>
    /\ mines = {}
    /\ revealed = {}
    /\ safe_history = {}
    /\ DriverIdle

InitMapping == Left(SmallRows, SmallCols, SmallMines, MaxDigit)

NextMapping ==
    \/ /\ IdentifyMines
       /\ UNCHANGED <<steps, game, safe_history, driver>>
    \/ /\ GetNextMove
       /\ UNCHANGED <<steps, game, safe_history, driver>>

SpecMapping == InitMapping /\ [][NextMapping]_vars

InitRow == Left(RowRows, RowCols, RowMines, MaxHint)

NextRow ==
    /\ IdentifyMines
    /\ UNCHANGED <<steps, game, safe_history, driver>>

SpecRow == InitRow /\ [][NextRow]_vars

----------------------------------------------------------------------------
(* Vocabulary of the properties, stated on sets rather than on traversals *)

Observed == Keys(cells)

CellAt(p) == CHOOSE x \in SeqToSet(cells) : Pos(x) = p

Abs(n) == IF n < 0 THEN -n ELSE n

\* the observed in-bounds positions around p
NeighborSet(p) ==
    {q \in Observed \cap Board(rows, cols) :
        q # p /\ Abs(q[1] - p[1]) <= 1 /\ Abs(q[2] - p[2]) <= 1}

\* observed, unrevealed and not a known mine
CandidateSet == {p \in Observed : ~CellAt(p).is_revealed /\ p \notin known_mines}

\* a revealed cell whose hint is met by its known-mine neighbours and that
\* has an unrevealed neighbour outside known_mines
Satisfied(p) ==
    /\ CellAt(p).is_revealed
    /\ Cardinality(NeighborSet(p) \cap known_mines) = CellAt(p).adjacent_mines
    /\ NeighborSet(p) \cap CandidateSet # {}

SafeExists == \E p \in Observed : Satisfied(p)

Returned == last_op = "get_next_move"

IsGuess(mv) == mv # NoMove /\ mv[1].reason[1] = "Guess"

IsDeducedSafe(mv) == mv # NoMove /\ mv[1].reason[1] = "Safe"

Target(mv) == <<mv[1].row, mv[1].col>>

RiskOf(p) == calculate_risk(cells, rows, cols, mine_count, known_mines, p[1], p[2])

----------------------------------------------------------------------------
(* Properties *)

\* C1: known_mines never shrinks: no step of update_cell or get_next_move
\* removes a coordinate from known_mines, also not an update_cell that
\* overwrites a known mine with a revealed, not-a-mine observation.
C1_KnownMinesNeverShrinks == [][known_mines \subseteq known_mines']_vars

\* a known mine has been overwritten as revealed and not a mine, and
\* get_next_move has run again since
C1_Witness ==
    /\ Returned
    /\ \E p \in known_mines :
          p \in Observed /\ CellAt(p).is_revealed /\ ~CellAt(p).is_mine

\* C2: every coordinate of known_mines is a key of the cell mapping.
C2_KnownMinesObserved == known_mines \subseteq Observed

\* a mine has been deduced with some position outside the board observed
\* and some position of the board never observed
C2_Witness ==
    /\ known_mines # {}
    /\ Observed \ Board(rows, cols) # {}
    /\ Board(rows, cols) \ Observed # {}

\* C3: on a consistent, fully observed board whose revealed cells only
\* grow, a deduced-safe move never targets a true mine, and no target of
\* a deduced-safe move is ever in known_mines afterwards.
C3_SafeMoveSound ==
    /\ (Returned /\ IsDeducedSafe(move)) => Target(move) \notin mines
    /\ safe_history \cap known_mines = {}

\* a deduced-safe move is returned that rests on a known mine, after an
\* earlier deduced-safe target has been revealed
C3_Witness ==
    /\ Returned
    /\ IsDeducedSafe(move)
    /\ \E p \in Observed :
          Satisfied(p) /\ CellAt(p).adjacent_mines > 0
          /\ Target(move) \in NeighborSet(p)
    /\ safe_history \cap revealed # {}

\* C4: on a consistent, fully observed board whose revealed cells only
\* grow, every coordinate of known_mines is a true mine.
C4_KnownMinesAreMines == known_mines \subseteq mines

\* every mine of a two-mine board has been deduced
C4_Witness ==
    /\ Cardinality(mines) >= 2
    /\ known_mines = mines

\* C5: after get_next_move (whose first step is the mine inference), a
\* Guess is returned only if no revealed cell is satisfied with an
\* unrevealed neighbour left, and when such a cell exists the move returned
\* is a deduced-safe one.
C5_SafeBeforeGuess ==
    Returned =>
        /\ IsGuess(move) => ~SafeExists
        /\ SafeExists => IsDeducedSafe(move)

\* a deduced-safe move is returned on a board with a deduced mine, so
\* that the hint it rests on was met by the mine inference
C5_Witness ==
    /\ Returned
    /\ IsDeducedSafe(move)
    /\ known_mines # {}
    /\ Cardinality(CandidateSet) >= 1

\* C6: get_next_move returns None exactly when no observed cell is
\* unrevealed and outside known_mines.
C6_NoMoveIffNoCandidate == Returned => (move = NoMove <=> CandidateSet = {})

\* None is returned on a board whose only unrevealed cells are known mines
C6_Witness ==
    /\ Returned
    /\ move = NoMove
    /\ known_mines # {}
    /\ \E p \in Observed : ~CellAt(p).is_revealed

\* C7: a returned move is a Reveal of an observed, unrevealed cell that is
\* not in known_mines.
C7_MoveIsRevealOfCandidate ==
    (Returned /\ move # NoMove) =>
        /\ move[1].action = REVEAL
        /\ Target(move) \in CandidateSet

\* a deduced-safe move is returned next to a revealed cell and a known mine
C7_Witness ==
    /\ Returned
    /\ IsDeducedSafe(move)
    /\ known_mines # {}
    /\ \E q \in NeighborSet(Target(move)) : CellAt(q).is_revealed

\* C8: the risk of every guess candidate lies in [0, 1].
C8_RiskInUnitInterval ==
    \A p \in CandidateSet :
        LET risk == RiskOf(p) IN 0 <= risk[1] /\ risk[1] <= risk[2]

\* the candidates whose risk is strictly below that of position p
StrictlySafer(p) == {q \in CandidateSet : RatLess(RiskOf(q), RiskOf(p))}

\* the positions _make_guess can return in this state
GuessTargets ==
    {<<g.row, g.col>> : g \in make_guess(cells, rows, cols, mine_count, known_mines)}

\* C9: a guess is drawn from the 5 lowest-risk candidates: at most 4
\* candidates have a risk strictly below that of the cell guessed, and
\* with 5 or fewer candidates each of them can be the guess.
C9_GuessAmongSafest ==
    /\ (Returned /\ IsGuess(move)) =>
          /\ Target(move) \in CandidateSet
          /\ Cardinality(StrictlySafer(Target(move))) <= TopK - 1
    /\ Cardinality(CandidateSet) <= TopK => GuessTargets = CandidateSet

\* a guess is returned among more than 5 candidates, exactly 4 of them are
\* strictly safer than it and some candidate is riskier
C9_Witness ==
    /\ Returned
    /\ IsGuess(move)
    /\ Cardinality(CandidateSet) > TopK
    /\ Cardinality(StrictlySafer(Target(move))) = TopK - 1
    /\ \E q \in CandidateSet : RatLess(RiskOf(Target(move)), RiskOf(q))

\* the centre is observed revealed with hint 0 and is the only revealed
\* cell, on a solver that has deduced no mine
CentreScenario ==
    /\ Centre \in Observed
    /\ CellAt(Centre).is_revealed
    /\ CellAt(Centre).adjacent_mines = 0
    /\ \A p \in Observed \ {Centre} : ~CellAt(p).is_revealed
    /\ known_mines = {}

\* C10 as stated: with the revealed centre (4,4), hint 0, as the only
\* observation, get_next_move returns a deduced-safe Reveal of one of the
\* 8 neighbours of the centre.
C10_CentreAlone ==
    (Returned /\ Observed = {Centre} /\ CentreScenario) =>
        /\ IsDeducedSafe(move)
        /\ move[1].action = REVEAL
        /\ Target(move) \in Ring

\* C10, amended: with the revealed centre (4,4), hint 0, and at least one
\* of its 8 neighbours observed (all observations but the centre being
\* unrevealed and unflagged), get_next_move returns a deduced-safe Reveal of an observed
\* neighbour of the centre, and every observed neighbour of the centre is
\* a deduced-safe candidate; with no neighbour observed it returns no
\* deduced-safe move.
C10_ObservedNeighboursSafe ==
    (Returned /\ CentreScenario) =>
        /\ Ring \cap Observed # {} =>
              /\ IsDeducedSafe(move)
              /\ move[1].action = REVEAL
              /\ Target(move) \in Ring \cap Observed
              /\ Satisfied(Centre)
              /\ Ring \cap Observed = NeighborSet(Centre) \cap CandidateSet
        /\ Ring \cap Observed = {} => ~IsDeducedSafe(move)

\* the whole page has been read, all 8 neighbours are candidates and one
\* of them is returned
C10_Witness ==
    /\ Returned
    /\ CentreScenario
    /\ Observed = Board(rows, cols)
    /\ Cardinality(NeighborSet(Centre) \cap CandidateSet) = Len(Offsets)
    /\ IsDeducedSafe(move)
    /\ Target(move) \in Ring

\* the observed in-bounds neighbours of p that are unrevealed and not in
\* known_mines
OpenNeighbors(p) == NeighborSet(p) \cap CandidateSet

\* the mines the hint of p still misses: N - K
Missing(p) ==
    CellAt(p).adjacent_mines - Cardinality(NeighborSet(p) \cap known_mines)

\* a revealed cell with hint N > 0 and exactly N - K > 0 open neighbours
Saturated(p) ==
    /\ CellAt(p).is_revealed
    /\ CellAt(p).adjacent_mines > 0
    /\ Missing(p) > 0
    /\ Cardinality(OpenNeighbors(p)) = Missing(p)

PassRan == last_op \in {"identify_mines", "get_next_move"}

\* C11: a pass of _identify_mines puts into known_mines every open
\* neighbour of every cell that was saturated before the pass; and when
\* that cell is the only revealed cell, the _find_safe_cell that follows
\* in get_next_move returns no move.
C11_SaturatedHintRule ==
    [][(last_op' \in {"identify_mines", "get_next_move"}) =>
          \A p \in Observed :
              Saturated(p) =>
                  /\ OpenNeighbors(p) \subseteq known_mines'
                  /\ ((\A q \in Observed \ {p} : ~CellAt(q).is_revealed)
                       /\ last_op' = "get_next_move")
                         => ~IsDeducedSafe(move')]_vars

\* get_next_move has returned on a board whose only revealed cell has
\* hint 3 and exactly 3 neighbours, all unrevealed: the three are the
\* known mines and no deduced-safe move came back
C11_Witness ==
    /\ Returned
    /\ \E p \in Observed :
          /\ CellAt(p).is_revealed
          /\ CellAt(p).adjacent_mines = 3
          /\ \A q \in Observed \ {p} : ~CellAt(q).is_revealed
          /\ Cardinality(NeighborSet(p)) = 3
          /\ known_mines = NeighborSet(p)
    /\ ~IsDeducedSafe(move)

RatEqual(a, b) == a[1] * b[2] = b[1] * a[2]

\* the observed unrevealed cells none of whose observed in-bounds
\* neighbours is revealed
Uninformed ==
    {p \in Observed :
        /\ ~CellAt(p).is_revealed
        /\ \A q \in NeighborSet(p) : ~CellAt(q).is_revealed}

\* C12: the risk of a candidate with no revealed observed neighbour is
\* mine_count / (rows * cols), whatever known_mines holds.
C12_GlobalPrior ==
    \A p \in Uninformed :
        \A km \in {known_mines} \cup SUBSET (Observed \ {p}) :
            RatEqual(calculate_risk(cells, rows, cols, mine_count, km, p[1], p[2]),
                     <<mine_count, rows * cols>>)

\* a guess is returned whose target has all its neighbours observed and
\* unrevealed, on a solver with a known mine
C12_Witness ==
    /\ Returned
    /\ IsGuess(move)
    /\ Target(move) \in Uninformed
    /\ NeighborSet(Target(move)) = Board(rows, cols) \ {Target(move)}
    /\ known_mines # {}
    /\ move[1].reason[2] = <<mine_count, rows * cols>>

\* the positions get_neighbors is asked about: the board and a margin of
\* one around it
ProbeCoords == (-1 .. rows) \X (-1 .. cols)

Neighbors(p) == get_neighbors(cells, rows, cols, p[1], p[2])

\* C13: get_neighbors(row, col) returns, each once, exactly the cells of
\* the mapping that lie on the board, within 1 of (row, col) in each axis,
\* and are not (row, col) itself.
C13_NeighborsExact ==
    \A p \in ProbeCoords :
        LET ns == Neighbors(p)
            around == NeighborSet(p)
        IN /\ SeqToSet(ns) = {CellAt(q) : q \in around}
           /\ Len(ns) = Cardinality(around)
           /\ \A k \in DOMAIN ns : Pos(ns[k]) \in Observed \cap Board(rows, cols)

\* around a corner of the board one in-bounds position is observed, one
\* is not, and an adjacent position outside the board is observed:
\* get_neighbors returns the one cell
C13_Witness ==
    \E p \in Board(rows, cols) :
        /\ Len(Neighbors(p)) = 1
        /\ \E q \in Board(rows, cols) \ Observed : Adjacent(p, q)
        /\ \E q \in Observed \ Board(rows, cols) : Adjacent(p, q)

\* the entry of position p in the mapping cs
CellIn(cs, p) == CHOOSE x \in SeqToSet(cs) : Pos(x) = p

\* C14: update_cell(r, c, ...) leaves the entry of (r, c) equal to the
\* observation it was given, one entry per observed position, every other
\* entry as it was, and known_mines and the board dimensions unchanged.
C14_UpdateCellUpsert ==
    [][last_op' = "update_cell" =>
          LET given == arg'[1]
          IN /\ Keys(cells') = Observed \cup {Pos(given)}
             /\ Len(cells') = Cardinality(Keys(cells'))
             /\ CellIn(cells', Pos(given)) = given
             /\ \A q \in Observed \ {Pos(given)} : CellIn(cells', q) = CellAt(q)
             /\ known_mines' = known_mines
             /\ <<rows', cols', mine_count'>> = <<rows, cols, mine_count>>]_vars

\* update_cell has just overwritten a known mine with a revealed
\* observation, with a position outside the board in the mapping
C14_Witness ==
    /\ last_op = "update_cell"
    /\ Pos(arg[1]) \in known_mines
    /\ arg[1].is_revealed
    /\ CellAt(Pos(arg[1])) = arg[1]
    /\ Observed \ Board(rows, cols) # {}

\* what one more pass of _identify_mines would leave in known_mines
NextPass == identify_mines(cells, rows, cols, known_mines)

\* C15 as stated: there is a mapping and a starting known_mines on which a
\* second pass of _identify_mines, run right after the first, adds a
\* coordinate.
C15_SecondPassAdds ==
    \E cs \in Mappings(rows, cols, MaxHint) :
        \E km \in StartSets(cs, rows, cols) :
            LET first == identify_mines(cs, rows, cols, km)
            IN identify_mines(cs, rows, cols, first) # first

\* C15, amended: one pass of _identify_mines reaches the fixpoint: a
\* second pass run right after it, with no update_cell in between, adds
\* nothing to known_mines.
C15_SinglePassIsFixpoint == PassRan => NextPass = known_mines

\* a pass has run and two revealed cells with different hints, sharing a
\* known-mine neighbour, have all their mines known
C15_Witness ==
    /\ PassRan
    /\ Cardinality(known_mines) >= 2
    /\ \E p, q \in Observed :
          /\ CellAt(p).is_revealed /\ CellAt(q).is_revealed
          /\ 0 < CellAt(p).adjacent_mines
          /\ CellAt(p).adjacent_mines < CellAt(q).adjacent_mines
          /\ Missing(p) = 0 /\ Missing(q) = 0
          /\ NeighborSet(p) \cap NeighborSet(q) \cap known_mines # {}

\* the orders in which a mapping of n cells can be visited
Perms(n) == {f \in [1 .. n -> 1 .. n] : \A i, j \in 1 .. n : i # j => f[i] # f[j]}

\* the visiting orders of the mappings of up to MaxCells cells
PermsUpTo == [n \in 0 .. MaxCells |-> Perms(n)]

\* the mapping with its cells in the order f
Reordered(f) == [k \in DOMAIN cells |-> cells[f[k]]]

\* C16: one pass of _identify_mines from the same mapping and the same
\* known_mines leaves the same known_mines in whatever order it visits the
\* cells.
C16_PassOrderIndependent ==
    LET as_inserted == NextPass
    IN \A f \in PermsUpTo[Len(cells)] :
           identify_mines(Reordered(f), rows, cols, known_mines) = as_inserted

\* a pass has run in which a revealed cell of hint 2 was visited after a
\* revealed cell of hint 1 that shares a neighbour with it, and found both
\* its neighbours to be mines
C16_Witness ==
    /\ PassRan
    /\ \E i, j \in DOMAIN cells :
          /\ i < j
          /\ cells[i].is_revealed /\ cells[i].adjacent_mines = 1
          /\ cells[j].is_revealed /\ cells[j].adjacent_mines = 2
          /\ Cardinality(NeighborSet(Pos(cells[j]))) = 2
          /\ NeighborSet(Pos(cells[j])) \subseteq known_mines
          /\ NeighborSet(Pos(cells[i])) \cap NeighborSet(Pos(cells[j])) # {}

\* the mapping with is_flagged and is_mine of every observation set to b
WithFlags(b) ==
    [i \in DOMAIN cells |->
        Cell(cells[i].row, cells[i].col, cells[i].is_revealed, b, b,
             cells[i].adjacent_mines)]

\* a solver holding the mapping cs and the same known_mines decides as
\* this one: same known_mines after the pass, same value returned, same
\* deduced-safe move, same guess candidates with the same risks
SameDecisions(cs) ==
    LET km1 == identify_mines(cells, rows, cols, known_mines)
    IN /\ get_next_move(cs, rows, cols, mine_count, known_mines)
            = get_next_move(cells, rows, cols, mine_count, known_mines)
       /\ find_safe_cell(cs, rows, cols, km1) = find_safe_cell(cells, rows, cols, km1)
       /\ candidates_of(cs, rows, cols, mine_count, km1)
            = candidates_of(cells, rows, cols, mine_count, km1)

\* C17: the decisions of the solver do not depend on is_flagged and
\* is_mine: whatever these fields are in the mapping, the solver decides
\* as with all of them unset and as with all of them set.
C17_FlagsIgnored == SameDecisions(WithFlags(FALSE)) /\ SameDecisions(WithFlags(TRUE))

\* a cell observed as flagged and unrevealed is returned as the target of
\* a deduced-safe Reveal, next to a revealed cell observed as a mine
C17_Witness ==
    /\ Returned
    /\ IsDeducedSafe(move)
    /\ move[1].action = REVEAL
    /\ CellAt(Target(move)).is_flagged
    /\ \E q \in NeighborSet(Target(move)) :
          CellAt(q).is_revealed /\ CellAt(q).is_mine

\* C18: with cells of the board still unobserved, _identify_mines can put
\* into known_mines a coordinate that is not a mine of the true board (the
\* state C18_Witness describes is reached), and such a coordinate stays in
\* known_mines whatever is observed afterwards.
C18_WrongDeductionStays ==
    [][(known_mines \ mines) \subseteq (known_mines' \ mines')]_vars

\* every cell of the board has now been observed as the game shows it,
\* get_next_move has run again, and known_mines holds a coordinate that
\* is not a mine
C18_Witness ==
    /\ Returned
    /\ Observed = Board(rows, cols)
    /\ \A p \in Observed :
          /\ CellAt(p).is_revealed <=> p \in revealed
          /\ CellAt(p).is_revealed => CellAt(p).adjacent_mines = TrueHint(mines, p)
    /\ known_mines \ mines # {}

\* C19: get_next_move completes without a fault: after its mine
\* inference no division of a risk computation has a zero divisor and
\* random.choice is never handed an empty list; what it returns is None or
\* a move.
C19_NeverFaults ==
    LET km1 == NextPass
        open == {q \in Observed : ~CellAt(q).is_revealed /\ q \notin km1}
    IN /\ \A q \in open :
             LET ds == risk_divisors(cells, rows, cols, km1, q[1], q[2])
             IN \A k \in DOMAIN ds : ds[k] # 0
       /\ LET calls == choice_calls(cells, rows, cols, mine_count, km1)
          IN \A k \in DOMAIN calls : calls[k] # <<>>
       /\ Returned =>
             \/ move = NoMove
             \/ /\ Len(move) = 1
                /\ move[1].action \in {REVEAL, FLAG}
                /\ <<move[1].row, move[1].col>> \in Observed

\* a guess is returned for a cell outside the board whose only revealed
\* neighbour has no unrevealed neighbour on the board: no density was
\* computed and the risk is the default 0.5
C19_Witness ==
    /\ Returned
    /\ IsGuess(move)
    /\ Target(move) \notin Board(rows, cols)
    /\ \E q \in NeighborSet(Target(move)) :
          CellAt(q).is_revealed /\ OpenNeighbors(q) = {}
    /\ move[1].reason[2] = <<1, 2>>

\* C20: play ends; the loop clicks at most max_moves times, once per
\* move counted; a click is one click, made for the move get_next_move
\* has just returned, after the board read of the same iteration found
\* the game still playing; and play returns without clicking when the
\* game is won or lost or get_next_move returned None.
C20_PlayTerminates ==
    /\ [](/\ clicks = move_count
          /\ clicks <= max_moves
          /\ pc \in {"decide", "click"} => steps = clicks + 1 /\ game_state = "playing"
          /\ pc = "click" => Returned /\ move # NoMove
          /\ pc = "done" =>
                \/ steps = clicks + 1 /\ game_state \in {"won", "lost"}
                \/ steps = clicks + 1 /\ Returned /\ move = NoMove
                \/ steps = clicks /\ clicks = max_moves)
    /\ [][/\ clicks' # clicks => clicks' = clicks + 1 /\ pc = "click" /\ pc' = "test"
          /\ pc = "done" => pc' = "done" /\ clicks' = clicks]_vars
    /\ <>(pc = "done")

\* play has returned because its move limit was reached, after max_moves
\* clicks
C20_Witness ==
    /\ pc = "done"
    /\ clicks = max_moves
    /\ game_state = "playing"
    /\ move # NoMove

\* the revealed cells among the observed in-bounds neighbours of p
RevealedNeighbors(p) == {q \in NeighborSet(p) : CellAt(q).is_revealed}

\* C21: a candidate on the board with a revealed observed neighbour never
\* gets the default risk 0.5: each of its revealed neighbours counts at
\* least one unrevealed neighbour outside known_mines, so each contributes
\* a density and the risk is their average over all of them; a candidate
\* that gets the default lies outside the board.  Stated for known_mines
\* as it is and as the pass of get_next_move leaves it.
C21_DefaultOnlyOutside ==
    \A km \in {known_mines, NextPass} :
        \A p \in Observed :
            (~CellAt(p).is_revealed /\ p \notin km) =>
                LET ds == risk_divisors(cells, rows, cols, km, p[1], p[2])
                    shown == Cardinality(RevealedNeighbors(p))
                    risk == calculate_risk(cells, rows, cols, mine_count, km, p[1], p[2])
                IN /\ (p \in Board(rows, cols) /\ shown > 0) =>
                        /\ Len(ds) = shown + 1
                        /\ \A k \in DOMAIN ds : ds[k] >= 1
                        /\ ds[Len(ds)] = shown
                        /\ risk[2] = DensityDen * shown
                   /\ ds = <<>> => p \notin Board(rows, cols)

\* a guess is returned for a cell of the board with a revealed neighbour;
\* its risk is worth 1/2 and is an average of densities, not the default
C21_Witness ==
    /\ Returned
    /\ IsGuess(move)
    /\ Target(move) \in Board(rows, cols)
    /\ RevealedNeighbors(Target(move)) # {}
    /\ move[1].reason[2][2] = DensityDen * Cardinality(RevealedNeighbors(Target(move)))
    /\ RatEqual(move[1].reason[2], <<1, 2>>)

\* C22: a call of get_next_move leaves the mapping as it was: the same
\* observed coordinates, in the same order, with the same cells; rows,
\* cols and mine_count stay; known_mines can only gain coordinates.
C22_MappingUntouched ==
    [][last_op' = "get_next_move" =>
          /\ Observed' = Observed
          /\ cells' = cells
          /\ <<rows', cols', mine_count'>> = <<rows, cols, mine_count>>
          /\ known_mines \subseteq known_mines']_vars

\* get_next_move has returned a move on a mapping with an unflagged cell
\* that it knows to be a mine
C22_Witness ==
    /\ Returned
    /\ move # NoMove
    /\ \E p \in known_mines : p \in Observed /\ ~CellAt(p).is_flagged

====
